---- MODULE Spec2Model ----
(***************************************************************************)
(* Model of scripts/generate-auth-client.mjs, the OpenAPI -> fetch client  *)
(* generator.  JavaScript strings are sequences of one-character strings,  *)
(* so that the regular-expression rewrites of the generator are computed   *)
(* character by character.                                                 *)
(***************************************************************************)
EXTENDS Integers, Sequences, FiniteSets, TLC

VARIABLES call, openapi, fs, pc, resp, redirects, grouped, exports, written,
          err, exitCode, run, prev

vars == <<call, openapi, fs, pc, resp, redirects, grouped, exports, written,
          err, exitCode, run, prev>>

mainVars == <<openapi, fs, pc, resp, redirects, grouped, exports, written,
              err, exitCode, run, prev>>

(***************************************************************************)
(* Characters and string helpers                                           *)
(***************************************************************************)
LowerSeq == <<"a","b","c","d","e","f","g","h","i","j","k","l","m",
              "n","o","p","q","r","s","t","u","v","w","x","y","z">>
UpperSeq == <<"A","B","C","D","E","F","G","H","I","J","K","L","M",
              "N","O","P","Q","R","S","T","U","V","W","X","Y","Z">>
Digits == {"0","1","2","3","4","5","6","7","8","9"}

Range(s) == {s[i] : i \in DOMAIN s}
Lower == Range(LowerSeq)
Upper == Range(UpperSeq)

\* the character class [a-zA-Z0-9_]
IsWordChar(c) == c \in Lower \cup Upper \cup Digits \cup {"_"}

toUpperCase1(c) ==
  IF c \in Lower THEN UpperSeq[CHOOSE i \in DOMAIN LowerSeq : LowerSeq[i] = c] ELSE c

toLowerCase1(c) ==
  IF c \in Upper THEN LowerSeq[CHOOSE i \in DOMAIN UpperSeq : UpperSeq[i] = c] ELSE c

toLowerCase(str) == [i \in DOMAIN str |-> toLowerCase1(str[i])]

\* str.replace(/[^a-zA-Z0-9_]+/g, '_')
RECURSIVE ReplaceNonWordRuns(_)
ReplaceNonWordRuns(str) ==
  IF str = <<>> THEN <<>>
  ELSE IF IsWordChar(Head(str)) THEN <<Head(str)>> \o ReplaceNonWordRuns(Tail(str))
  ELSE IF Len(str) > 1 /\ ~IsWordChar(str[2]) THEN ReplaceNonWordRuns(Tail(str))
  ELSE <<"_">> \o ReplaceNonWordRuns(Tail(str))

\* str.replace(/^_+|_+$/g, '')
RECURSIVE StripLeadingUnderscores(_)
StripLeadingUnderscores(str) ==
  IF str # <<>> /\ Head(str) = "_" THEN StripLeadingUnderscores(Tail(str)) ELSE str

RECURSIVE StripTrailingUnderscores(_)
StripTrailingUnderscores(str) ==
  IF str # <<>> /\ str[Len(str)] = "_"
  THEN StripTrailingUnderscores(SubSeq(str, 1, Len(str) - 1))
  ELSE str

\* str.replace(/_{2,}/g, '_')
RECURSIVE CollapseUnderscores(_)
CollapseUnderscores(str) ==
  IF str = <<>> THEN <<>>
  ELSE IF Head(str) = "_" /\ Len(str) > 1 /\ str[2] = "_" THEN CollapseUnderscores(Tail(str))
  ELSE <<Head(str)>> \o CollapseUnderscores(Tail(str))

toSafeName(str) ==
  CollapseUnderscores(StripTrailingUnderscores(StripLeadingUnderscores(ReplaceNonWordRuns(str))))

\* index of the first occurrence of c in str at or after position i, 0 if none
RECURSIVE IndexFrom(_, _, _)
IndexFrom(str, c, i) ==
  IF i > Len(str) THEN 0
  ELSE IF str[i] = c THEN i
  ELSE IndexFrom(str, c, i + 1)

\* str.split('/')
RECURSIVE Split(_, _)
Split(str, sep) ==
  LET k == IndexFrom(str, sep, 1)
  IN IF k = 0 THEN <<str>>
     ELSE <<SubSeq(str, 1, k - 1)>> \o Split(SubSeq(str, k + 1, Len(str)), sep)

\* array.filter(Boolean) on an array of strings: drops the empty strings
RECURSIVE FilterNonEmpty(_)
FilterNonEmpty(arr) ==
  IF arr = <<>> THEN <<>>
  ELSE IF Head(arr) = <<>> THEN FilterNonEmpty(Tail(arr))
  ELSE <<Head(arr)>> \o FilterNonEmpty(Tail(arr))

\* array.join(sep)
RECURSIVE Join(_, _)
Join(arr, sep) ==
  IF arr = <<>> THEN <<>>
  ELSE IF Len(arr) = 1 THEN arr[1]
  ELSE arr[1] \o sep \o Join(Tail(arr), sep)

\* s.replace(/\{.*?\}/g, ''): each "{" up to the nearest following "}" is removed
RECURSIVE StripPlaceholders(_)
StripPlaceholders(s) ==
  IF s = <<>> THEN <<>>
  ELSE LET close == IF Head(s) = "{" THEN IndexFrom(s, "}", 2) ELSE 0
       IN IF close # 0 THEN StripPlaceholders(SubSeq(s, close + 1, Len(s)))
          ELSE <<Head(s)>> \o StripPlaceholders(Tail(s))

MapStripPlaceholders(arr) == [i \in DOMAIN arr |-> StripPlaceholders(arr[i])]

Str_root == <<"r","o","o","t">>
Str_default == <<"d","e","f","a","u","l","t">>
Str_pathParams == <<"p","a","t","h","P","a","r","a","m","s">>
Str_base_js == <<"b","a","s","e",".","j","s">>
Str_index_js == <<"i","n","d","e","x",".","j","s">>
Str_api_js == <<"-","a","p","i",".","j","s">>

Str_get == <<"g","e","t">>
Str_post == <<"p","o","s","t">>
Str_put == <<"p","u","t">>
Str_patch == <<"p","a","t","c","h">>
Str_delete == <<"d","e","l","e","t","e">>
Str_options == <<"o","p","t","i","o","n","s">>
Str_head == <<"h","e","a","d">>
Str_parameters == <<"p","a","r","a","m","e","t","e","r","s">>

\* ['get', 'post', 'put', 'patch', 'delete', 'options', 'head']
HttpMethods == {Str_get, Str_post, Str_put, Str_patch, Str_delete, Str_options, Str_head}

(***************************************************************************)
(* Operations of the document.  An absent optional field is modelled by    *)
(* its "has" flag being FALSE.                                             *)
(***************************************************************************)
\* a truthy op.operationId: present and not the empty string
HasOperationId(op) == op.hasOperationId /\ op.operationId # <<>>

opFunctionName(op, pathKey, method) ==
  IF HasOperationId(op) THEN toSafeName(op.operationId)
  ELSE LET fromPath == Join(FilterNonEmpty(MapStripPlaceholders(
                              FilterNonEmpty(Split(pathKey, "/")))), <<"_">>)
           base == method \o <<"_">> \o (IF fromPath # <<>> THEN fromPath ELSE Str_root)
       IN toSafeName(base)

\* paramList: the names of the parameters that have a (non-empty) name,
\* without duplicates, first occurrence first
RECURSIVE ParamNames(_, _)
ParamNames(params, seen) ==
  IF params = <<>> THEN <<>>
  ELSE LET p == Head(params)
       IN IF p.name = <<>> \/ p.name \in seen
          THEN ParamNames(Tail(params), seen)
          ELSE <<p.name>> \o ParamNames(Tail(params), seen \cup {p.name})

\* a paramList that keeps the parameters that have no name
paramListUnfiltered(params) == [i \in DOMAIN params |-> params[i].name]

paramList(params) == ParamNames(params, {})

\* (op.parameters || []).filter((p) => p.in === where)
RECURSIVE FilterIn(_, _)
FilterIn(params, where) ==
  IF params = <<>> THEN <<>>
  ELSE IF Head(params).in = where THEN <<Head(params)>> \o FilterIn(Tail(params), where)
  ELSE FilterIn(Tail(params), where)

ParametersOf(op) == IF op.hasParameters THEN op.parameters ELSE <<>>

\* pathKey.replace(/\{(.*?)\}/g, '${pathParams.$1}')
RECURSIVE buildPathTemplate(_)
buildPathTemplate(pathKey) ==
  IF pathKey = <<>> THEN <<>>
  ELSE LET close == IF Head(pathKey) = "{" THEN IndexFrom(pathKey, "}", 2) ELSE 0
       IN IF close # 0
          THEN <<"$", "{">> \o Str_pathParams \o <<".">> \o SubSeq(pathKey, 2, close - 1)
                 \o <<"}">> \o buildPathTemplate(SubSeq(pathKey, close + 1, Len(pathKey)))
          ELSE <<Head(pathKey)>> \o buildPathTemplate(Tail(pathKey))

\* a pickTags that does not test the length of the tag list
pickTagsNoLength(op) == IF op.hasTags THEN op.tags ELSE <<Str_default>>

pickTags(op) == IF op.hasTags /\ op.tags # <<>> THEN op.tags ELSE <<Str_default>>

toUpperCase(str) == [i \in DOMAIN str |-> toUpperCase1(str[i])]

\* toSafeName(tag[0].toUpperCase() + tag.slice(1)); tag[0] is undefined for
\* the empty tag and the call throws a TypeError
TagThrows(tag) == tag = <<>>

ClassName(tag) == toSafeName(<<toUpperCase1(tag[1])>> \o Tail(tag))

\* `${toSafeName(tag.toLowerCase())}-api.js`
ModuleFile(tag) == toSafeName(toLowerCase(tag)) \o Str_api_js

genBaseJs == <<[k |-> "baseJs"]>>

\* the argument list of one emitted method
MethodArgs(op) ==
  LET pathParams == paramList(FilterIn(ParametersOf(op), "path"))
      queryParams == paramList(FilterIn(ParametersOf(op), "query"))
      headerParams == paramList(FilterIn(ParametersOf(op), "header"))
  IN (IF pathParams # <<>> THEN <<"pathParams">> ELSE <<>>)
       \o (IF queryParams # <<>> THEN <<"query">> ELSE <<>>)
       \o (IF headerParams # <<>> THEN <<"headers">> ELSE <<>>)
       \o (IF op.hasRequestBody THEN <<"body">> ELSE <<>>)

\* the doc comment, signature and body emitted for one operation
MethodLines(op) ==
  [k |-> "method",
   summary |-> op.summary,
   method |-> toUpperCase(op.method),
   pathKey |-> op.pathKey,
   fn |-> op.fnName,
   args |-> MethodArgs(op),
   path |-> buildPathTemplate(op.pathKey),
   query |-> paramList(FilterIn(ParametersOf(op), "query")) # <<>>,
   headers |-> paramList(FilterIn(ParametersOf(op), "header")) # <<>>,
   body |-> op.hasRequestBody]

genApiModule(tag, operations) ==
  <<[k |-> "comment", tag |-> tag], [k |-> "importBase"], [k |-> "blank"],
    [k |-> "class", name |-> ClassName(tag)], [k |-> "ctorDoc"], [k |-> "ctor"]>>
  \o [i \in DOMAIN operations |-> MethodLines(operations[i])]
  \o <<[k |-> "close"], [k |-> "blank"], [k |-> "exportDefault", name |-> ClassName(tag)]>>

\* { ...op, method, pathKey, fnName }
IndexedOperation(op, pathKey, method) ==
  [hasOperationId |-> op.hasOperationId, operationId |-> op.operationId,
   hasTags |-> op.hasTags, tags |-> op.tags, summary |-> op.summary,
   hasParameters |-> op.hasParameters, parameters |-> op.parameters,
   hasRequestBody |-> op.hasRequestBody,
   method |-> method, pathKey |-> pathKey,
   fnName |-> opFunctionName(op, pathKey, method)]

\* byTag is a Map: a sequence of [tag, ops] in insertion order of the tags
RECURSIVE PushUnderTags(_, _, _)
PushUnderTags(byTag, tags, entry) ==
  IF tags = <<>> THEN byTag
  ELSE LET tag == Head(tags)
           withTag == IF \E i \in DOMAIN byTag : byTag[i].tag = tag
                      THEN byTag
                      ELSE Append(byTag, [tag |-> tag, ops |-> <<>>])
           pushed == [i \in DOMAIN withTag |->
                        IF withTag[i].tag = tag
                        THEN [tag |-> tag, ops |-> Append(withTag[i].ops, entry)]
                        ELSE withTag[i]]
       IN PushUnderTags(pushed, Tail(tags), entry)

RECURSIVE GroupItem(_, _, _)
GroupItem(byTag, pathKey, item) ==
  IF item = <<>> THEN byTag
  ELSE LET method == Head(item).key
           op == Head(item).op
       IN IF method \notin HttpMethods
          THEN GroupItem(byTag, pathKey, Tail(item))
          ELSE GroupItem(PushUnderTags(byTag, pickTags(op),
                                       IndexedOperation(op, pathKey, method)),
                         pathKey, Tail(item))

RECURSIVE GroupPaths(_, _)
GroupPaths(byTag, paths) ==
  IF paths = <<>> THEN byTag
  ELSE GroupPaths(GroupItem(byTag, Head(paths).pathKey, Head(paths).item), Tail(paths))

groupOperationsByTag(doc) ==
  GroupPaths(<<>>, IF doc.hasPaths THEN doc.paths ELSE <<>>)

\* the lines of index.js
IndexLines(exps) ==
  [i \in DOMAIN exps |-> [k |-> "export", className |-> exps[i].className,
                          file |-> exps[i].file]]
  \o <<[k |-> "exportAllBase", file |-> Str_base_js]>>

(***************************************************************************)
(* The file system and the outcome of one I/O call                         *)
(***************************************************************************)
EmptyFs == [n \in {} |-> <<>>]

\* a write that appends to an existing file
WriteFileFsAppend(files, file, content) ==
  [n \in DOMAIN files \cup {file} |->
     IF n = file THEN (IF n \in DOMAIN files THEN files[n] ELSE <<>>) \o content
     ELSE files[n]]

\* fsp.writeFile(file, content, 'utf8'): creates or overwrites the file
WriteFileFs(files, file, content) ==
  [n \in DOMAIN files \cup {file} |-> IF n = file THEN content ELSE files[n]]

\* await writeFile(file, content): ensureDir of the directory, then the write;
\* either call may reject, and a rejected call leaves the files as they were
IoOutcomes == {"ok", "mkdirFails", "writeFails"}

\* main().catch: log the error, process.exit(1)
FailureExitCode == 1

Reject(kind) ==
  /\ pc' = "failed"
  /\ err' = kind
  /\ exitCode' = FailureExitCode

(***************************************************************************)
(* fetchJson                                                               *)
(***************************************************************************)
\* res.statusCode >= 300 && res.statusCode < 400 && res.headers.location
IsRedirect(status, hasLocation) ==
  status # 0 /\ status >= 300 /\ status < 400 /\ hasLocation

\* a loader that rejects only the server errors
StatusFailsServerOnly(status) == status # 0 /\ status >= 500

\* res.statusCode >= 400
StatusFails(status) == status # 0 /\ status >= 400

\* a loop over the tags that stops one tag early
ResumeOneShort(groups, exps) ==
  IF Len(exps) + 1 < Len(groups)
  THEN IF TagThrows(groups[Len(exps) + 1].tag)
       THEN Reject("TypeError")
       ELSE pc' = "module" /\ err' = err /\ exitCode' = exitCode
  ELSE pc' = "index" /\ err' = err /\ exitCode' = exitCode

\* what main does when it resumes after a completed await, with the exports
\* recorded so far: prepare the next tag's module (genApiModule throws on
\* the empty tag), or go on to index.js
Resume(groups, exps) ==
  IF Len(exps) < Len(groups)
  THEN IF TagThrows(groups[Len(exps) + 1].tag)
       THEN Reject("TypeError")
       ELSE pc' = "module" /\ err' = err /\ exitCode' = exitCode
  ELSE pc' = "index" /\ err' = err /\ exitCode' = exitCode

(***************************************************************************)
(* Bounds and the inputs drawn by the initial states                       *)
(***************************************************************************)
MaxRedirects == 2
MaxRuns == 2
MaxOps == 2
MaxParams == 2
MaxStrLen == 4

Statuses == {200, 302, 404, 503}

EmptyOp ==
  [hasOperationId |-> FALSE, operationId |-> <<>>, hasTags |-> FALSE, tags |-> <<>>,
   summary |-> <<>>, hasParameters |-> FALSE, parameters |-> <<>>,
   hasRequestBody |-> FALSE]

\* the items (method key -> operation, in document order) with at most n keys
RECURSIVE Items(_, _, _)
Items(keys, ops, n) ==
  {<<>>} \cup
  IF n = 0 THEN {}
  ELSE UNION { UNION { {<<[key |-> k, op |-> o]>> \o rest :
                          rest \in Items(keys \ {k}, ops, n - 1)} :
                       o \in IF k \in HttpMethods THEN ops ELSE {EmptyOp} } :
               k \in keys }

\* the path tables over distinct path keys with at most budget keys in all
RECURSIVE PathTables(_, _, _, _)
PathTables(pathKeys, keys, ops, budget) ==
  {<<>>} \cup
  UNION { UNION { {<<[pathKey |-> p, item |-> it]>> \o rest :
                     rest \in PathTables(pathKeys \ {p}, keys, ops, budget - Len(it))} :
                  it \in Items(keys, ops, budget) } :
          p \in pathKeys }

Documents(pathKeys, keys, ops) ==
  {[hasPaths |-> FALSE, paths |-> <<>>]} \cup
  {[hasPaths |-> TRUE, paths |-> t] :
     t \in PathTables(pathKeys, keys, ops, MaxOps)}

\* all strings over chars of length at most n
RECURSIVE Strings(_, _)
Strings(chars, n) ==
  IF n = 0 THEN {<<>>}
  ELSE LET shorter == Strings(chars, n - 1)
       IN shorter \cup {Append(str, c) : str \in shorter, c \in chars}

Path_u == <<"/","u">>
Path_u_i == <<"/","u","/","{","i","}">>
Path_users_orders == <<"/","u","s","e","r","s","/","{","i","d","}","/",
                       "o","r","d","e","r","s","/","{","o","r","d","e","r","I","d","}">>

NoCall == [f |-> "none", done |-> TRUE]
NoResp == [error |-> FALSE, status |-> 0, bodyOk |-> TRUE]

Stale == <<[k |-> "stale"]>>

\* output directories a run can start from: empty, or left by an earlier
\* generation
InitialDirs ==
  {EmptyFs,
   [n \in {Str_base_js, Str_index_js, <<"a">> \o Str_api_js, <<"o","l","d">> \o Str_api_js}
      |-> Stale]}

\* the tag lists of the documents of the generation runs: tags that differ
\* in case only, tags that differ in a non-word character only, the empty tag
TagLists ==
  {<<<<"A">>, <<"a">>>>, <<<<"a","-","b">>, <<"a","_","b">>, <<>>>>}

MainOps ==
  {EmptyOp} \cup {[EmptyOp EXCEPT !.hasTags = TRUE, !.tags = t] : t \in TagLists}

MainPathKeys == {Path_u}
MainKeys == {Str_get, Str_post, Str_put}

(***************************************************************************)
(* main: one generation run, one action per awaited step                   *)
(***************************************************************************)
MainIdle ==
  /\ fs = EmptyFs
  /\ pc = "idle"
  /\ resp = NoResp
  /\ redirects = 0
  /\ grouped = <<>>
  /\ exports = <<>>
  /\ written = <<>>
  /\ err = "none"
  /\ exitCode = -1
  /\ run = 0
  /\ prev = [ok |-> FALSE, fs |-> EmptyFs]

Init ==
  /\ call = NoCall
  /\ openapi \in Documents(MainPathKeys, MainKeys, MainOps)
  /\ fs \in InitialDirs
  /\ pc = "fetch"
  /\ resp = NoResp
  /\ redirects = 0
  /\ grouped = <<>>
  /\ exports = <<>>
  /\ written = <<>>
  /\ err = "none"
  /\ exitCode = -1
  /\ run = 1
  /\ prev = [ok |-> FALSE, fs |-> fs]

\* lib.get(...).on('error', reject)
FetchError ==
  /\ pc = "fetch"
  /\ resp' = [error |-> TRUE, status |-> 0, bodyOk |-> FALSE]
  /\ redirects' = 0
  /\ Reject("FetchFailure")
  /\ UNCHANGED <<call, openapi, fs, grouped, exports, written, run, prev>>

\* the response callback of fetchJson; on success main resumes and starts
\* ensureDir(outDir)
FetchResponse ==
  /\ pc = "fetch"
  /\ \E status \in Statuses, hasLocation \in BOOLEAN, bodyOk \in BOOLEAN :
       /\ resp' = [error |-> FALSE, status |-> status, bodyOk |-> bodyOk]
       /\ IF IsRedirect(status, hasLocation)
          THEN /\ redirects < MaxRedirects
               /\ redirects' = redirects + 1
               /\ UNCHANGED <<pc, err, exitCode>>
          ELSE /\ redirects' = 0
               /\ IF StatusFails(status) THEN Reject("HttpStatusFailure")
                  ELSE IF ~bodyOk THEN Reject("ParseFailure")
                  ELSE pc' = "mkdir" /\ UNCHANGED <<err, exitCode>>
  /\ UNCHANGED <<call, openapi, fs, grouped, exports, written, run, prev>>

\* await ensureDir(outDir); then writeFile of base.js starts
EnsureOutDir ==
  /\ pc = "mkdir"
  /\ \E ok \in BOOLEAN :
       IF ok THEN pc' = "base" /\ UNCHANGED <<err, exitCode>>
       ELSE Reject("WriteFailure")
  /\ UNCHANGED <<call, openapi, fs, resp, redirects, grouped, exports, written, run, prev>>

\* await writeFile(base.js); then groupOperationsByTag and the first module
WriteBase ==
  /\ pc = "base"
  /\ \E io \in IoOutcomes :
       IF io = "ok"
       THEN /\ fs' = WriteFileFs(fs, Str_base_js, genBaseJs)
            /\ written' = Append(written, [file |-> Str_base_js, content |-> genBaseJs])
            /\ grouped' = groupOperationsByTag(openapi)
            /\ exports' = <<>>
            /\ Resume(grouped', exports')
       ELSE /\ Reject("WriteFailure")
            /\ UNCHANGED <<fs, written, grouped, exports>>
  /\ UNCHANGED <<call, openapi, resp, redirects, run, prev>>

\* a loop that logs a failed module write and goes on to the next tag
WriteModuleSwallow ==
  /\ pc = "module"
  /\ LET tag == grouped[Len(exports) + 1].tag
         ops == grouped[Len(exports) + 1].ops
         mod == genApiModule(tag, ops)
     IN \E io \in IoOutcomes :
          /\ exports' = Append(exports, [tag |-> tag, file |-> ModuleFile(tag),
                                         className |-> ClassName(tag)])
          /\ IF io = "ok"
             THEN /\ fs' = WriteFileFs(fs, ModuleFile(tag), mod)
                  /\ written' = Append(written, [file |-> ModuleFile(tag), content |-> mod])
                  /\ Resume(grouped, exports')
             ELSE /\ err' = "WriteFailure"
                  /\ pc' = IF Len(exports') < Len(grouped) THEN "module" ELSE "index"
                  /\ UNCHANGED <<fs, written, exitCode>>
  /\ UNCHANGED <<call, openapi, resp, redirects, grouped, run, prev>>

\* await writeFile(file, mod) of the next tag; then its export is recorded
WriteModule ==
  /\ pc = "module"
  /\ LET tag == grouped[Len(exports) + 1].tag
         ops == grouped[Len(exports) + 1].ops
         mod == genApiModule(tag, ops)
     IN \E io \in IoOutcomes :
          IF io = "ok"
          THEN /\ fs' = WriteFileFs(fs, ModuleFile(tag), mod)
               /\ written' = Append(written, [file |-> ModuleFile(tag), content |-> mod])
               /\ exports' = Append(exports, [tag |-> tag, file |-> ModuleFile(tag),
                                              className |-> ClassName(tag)])
               /\ Resume(grouped, exports')
          ELSE /\ Reject("WriteFailure")
               /\ UNCHANGED <<fs, written, exports>>
  /\ UNCHANGED <<call, openapi, resp, redirects, grouped, run, prev>>

\* await writeFile(index.js); then main returns
WriteIndex ==
  /\ pc = "index"
  /\ \E io \in IoOutcomes :
       IF io = "ok"
       THEN /\ fs' = WriteFileFs(fs, Str_index_js, IndexLines(exports))
            /\ written' = Append(written, [file |-> Str_index_js,
                                           content |-> IndexLines(exports)])
            /\ pc' = "done"
            /\ exitCode' = 0
            /\ UNCHANGED err
       ELSE /\ Reject("WriteFailure")
            /\ UNCHANGED <<fs, written>>
  /\ UNCHANGED <<call, openapi, resp, redirects, grouped, exports, run, prev>>

\* the generator is started again on the same document and directory
Rerun ==
  /\ pc \in {"done", "failed"}
  /\ run < MaxRuns
  /\ run' = run + 1
  /\ prev' = [ok |-> pc = "done", fs |-> fs]
  /\ pc' = "fetch"
  /\ resp' = NoResp
  /\ redirects' = 0
  /\ grouped' = <<>>
  /\ exports' = <<>>
  /\ written' = <<>>
  /\ err' = "none"
  /\ exitCode' = -1
  /\ UNCHANGED <<call, openapi, fs>>

Next ==
  \/ FetchError
  \/ FetchResponse
  \/ EnsureOutDir
  \/ WriteBase
  \/ WriteModule
  \/ WriteIndex
  \/ Rerun

Spec == Init /\ [][Next]_vars

(***************************************************************************)
(* The pure functions, each applied to inputs drawn by the initial state   *)
(***************************************************************************)
IdChars == {"a", "1", "_", "-"}
PathChars == {"a", "1", "_", "-", "/", "{", "}"}

NameCalls(n) ==
  {[f |-> "opFunctionName", done |-> FALSE, ret |-> <<>>,
    op |-> [EmptyOp EXCEPT !.hasOperationId = TRUE, !.operationId = id],
    pathKey |-> Path_u_i, method |-> Str_get] : id \in Strings(IdChars, n)}
  \cup
  {[f |-> "opFunctionName", done |-> FALSE, ret |-> <<>>,
    op |-> EmptyOp, pathKey |-> p, method |-> m] :
     p \in Strings(PathChars, n) \cup {Path_users_orders}, m \in HttpMethods}

InitName == call \in NameCalls(MaxStrLen) /\ openapi = [hasPaths |-> FALSE, paths |-> <<>>] /\ MainIdle

CallOpFunctionName ==
  /\ call.f = "opFunctionName"
  /\ ~call.done
  /\ call' = [call EXCEPT !.done = TRUE,
                          !.ret = opFunctionName(call.op, call.pathKey, call.method)]
  /\ UNCHANGED mainVars

NextName == CallOpFunctionName

SpecName == InitName /\ [][NextName]_vars

Tag_a == <<"a">>
Tag_b == <<"b">>

IndexOps ==
  {[EmptyOp EXCEPT !.hasOperationId = hasId, !.operationId = IF hasId THEN <<"x">> ELSE <<>>,
                   !.hasTags = hasTags, !.tags = t] :
     hasId \in BOOLEAN,
     <<hasTags, t>> \in {<<FALSE, <<>>>>, <<TRUE, <<>>>>, <<TRUE, <<Tag_a, Tag_b>>>>,
                        <<TRUE, <<Tag_a, Tag_a>>>>}}

IndexPathKeys == {Path_u, Path_u_i}
IndexKeys == {Str_get, Str_post, Str_parameters}

InitIndex ==
  /\ call \in {[f |-> "groupOperationsByTag", done |-> FALSE, ret |-> <<>>, openapi |-> d] :
                 d \in Documents(IndexPathKeys, IndexKeys, IndexOps)}
  /\ openapi = call.openapi
  /\ MainIdle

CallGroupOperationsByTag ==
  /\ call.f = "groupOperationsByTag"
  /\ ~call.done
  /\ call' = [call EXCEPT !.done = TRUE, !.ret = groupOperationsByTag(call.openapi)]
  /\ UNCHANGED mainVars

NextIndex == CallGroupOperationsByTag

SpecIndex == InitIndex /\ [][NextIndex]_vars

Parameters ==
  {[name |-> n, in |-> loc] : n \in {<<>>, <<"i">>},
                              loc \in {"path", "query", "header", "cookie"}}

RECURSIVE ParameterLists(_)
ParameterLists(n) ==
  IF n = 0 THEN {<<>>}
  ELSE LET shorter == ParameterLists(n - 1)
       IN shorter \cup {Append(ps, p) : ps \in shorter, p \in Parameters}

RenderOps(n) ==
  {[EmptyOp EXCEPT !.hasRequestBody = body] : body \in BOOLEAN}
  \cup {[EmptyOp EXCEPT !.hasParameters = TRUE, !.parameters = ps, !.hasRequestBody = body] :
          ps \in ParameterLists(n), body \in BOOLEAN}

RenderCalls(n) ==
  LET entries == {IndexedOperation(op, p, Str_get) : op \in RenderOps(n), p \in {Path_u, Path_u_i}}
      first == IndexedOperation(EmptyOp, Path_u, Str_post)
  IN {[f |-> "genApiModule", done |-> FALSE, ret |-> <<>>, tag |-> Tag_a, operations |-> ops] :
        ops \in {<<e>> : e \in entries} \cup {<<first, e>> : e \in entries}}

InitRender ==
  /\ call \in RenderCalls(MaxParams)
  /\ openapi = [hasPaths |-> FALSE, paths |-> <<>>]
  /\ MainIdle

CallGenApiModule ==
  /\ call.f = "genApiModule"
  /\ ~call.done
  /\ call' = [call EXCEPT !.done = TRUE, !.ret = genApiModule(call.tag, call.operations)]
  /\ UNCHANGED mainVars

NextRender == CallGenApiModule

SpecRender == InitRender /\ [][NextRender]_vars

(***************************************************************************)
(* Properties                                                              *)
(***************************************************************************)
FilesOf(log) == [k \in DOMAIN log |-> log[k].file]

\* the files a run without failure writes, in order
PlannedFiles ==
  LET groups == groupOperationsByTag(openapi)
  IN <<Str_base_js>> \o [g \in DOMAIN groups |-> ModuleFile(groups[g].tag)]
       \o <<Str_index_js>>

\* C1: when the Spec Loader fails (network error, final status >= 400, or a
\* body that is not JSON) the run ends failed and has written no file.
C1_LoaderFailureWritesNothing ==
  (pc \notin {"idle", "fetch"} /\ (resp.error \/ resp.status >= 400 \/ ~resp.bodyOk))
    => (pc = "failed" /\ written = <<>> /\ fs = prev.fs)

C1_Witness ==
  /\ pc = "failed" /\ err = "HttpStatusFailure" /\ resp.status = 503
  /\ run = 2 /\ prev.ok /\ fs = prev.fs /\ fs # EmptyFs

\* C2: distinct tag keys get distinct file names and distinct class names,
\* and a run writes as many distinct module files as there are tag groups.
C2_EmissionPlanBijective ==
  pc = "done" =>
    /\ \A i, j \in DOMAIN exports :
         i # j => /\ exports[i].file # exports[j].file
                  /\ exports[i].className # exports[j].className
    /\ Cardinality({written[k].file : k \in DOMAIN written}
                     \ {Str_base_js, Str_index_js}) = Len(grouped)

\* C3: the function name of an operation is non-empty, made of [A-Za-z0-9_]
\* only, and does not begin with a digit.
C3_FunctionNameLegal ==
  (call.f = "opFunctionName" /\ call.done) =>
    /\ call.ret # <<>>
    /\ \A i \in DOMAIN call.ret : IsWordChar(call.ret[i])
    /\ call.ret[1] \notin Digits

\* the tag list of an operation as the document declares it
DeclaredTags(op) == IF op.hasTags /\ op.tags # <<>> THEN op.tags ELSE <<Str_default>>

\* the records of operation (p, m) in the buckets of tag t
RecordsOf(byTag, t, p, m) ==
  {<<g, i>> \in UNION {{<<g2, i2>> : i2 \in DOMAIN byTag[g2].ops} : g2 \in DOMAIN byTag} :
     byTag[g].tag = t /\ byTag[g].ops[i].pathKey = p /\ byTag[g].ops[i].method = m}

\* C4: each operation has, in the bucket of tag t, as many records as t
\* occurs in its tag list (["default"] when it has no tags), all with the
\* same fnName; so it is in at least one bucket.
C4_FanOut ==
  (call.f = "groupOperationsByTag" /\ call.done) =>
    LET paths == IF call.openapi.hasPaths THEN call.openapi.paths ELSE <<>>
        byTag == call.ret
        tagsSeen == {byTag[g].tag : g \in DOMAIN byTag}
    IN /\ \A g, h \in DOMAIN byTag : g # h => byTag[g].tag # byTag[h].tag
       /\ \A pi \in DOMAIN paths : \A ki \in DOMAIN paths[pi].item :
            LET p == paths[pi].pathKey
                m == paths[pi].item[ki].key
                op == paths[pi].item[ki].op
                tags == DeclaredTags(op)
            IN m \in HttpMethods =>
                 /\ \A t \in tagsSeen \cup Range(tags) :
                      Cardinality(RecordsOf(byTag, t, p, m))
                        = Cardinality({n \in DOMAIN tags : tags[n] = t})
                 /\ \A t1, t2 \in tagsSeen :
                      \A r1 \in RecordsOf(byTag, t1, p, m), r2 \in RecordsOf(byTag, t2, p, m) :
                        byTag[r1[1]].ops[r1[2]].fnName = byTag[r2[1]].ops[r2[2]].fnName
                 /\ \E t \in tagsSeen : RecordsOf(byTag, t, p, m) # {}

C4_Witness ==
  /\ call.f = "groupOperationsByTag" /\ call.done
  /\ Len(call.ret) = 3
  /\ call.ret[1].tag = Str_default
  /\ call.ret[2].tag = Tag_a /\ call.ret[3].tag = Tag_b
  /\ Len(call.ret[2].ops) = 1 /\ Len(call.ret[3].ops) = 1
  /\ Len(call.openapi.paths[1].item) = 2
  /\ call.openapi.paths[1].item[1].op.hasTags
  /\ call.openapi.paths[1].item[1].op.tags = <<>>

\* the content a file has after the writes of log
LastWritten(log, file) ==
  log[CHOOSE k \in DOMAIN log :
        log[k].file = file /\ \A j \in DOMAIN log : log[j].file = file => j <= k].content

\* C5: a failed write aborts the run: the files written are a strict prefix
\* of the write sequence, each keeps what the run wrote, every other file is
\* as before the run, and the exit code is not zero.
C5_WriteFailureAborts ==
  err = "WriteFailure" =>
    /\ pc = "failed"
    /\ exitCode > 0
    /\ Len(written) < Len(PlannedFiles)
    /\ FilesOf(written) = SubSeq(PlannedFiles, 1, Len(written))
    /\ \A k \in DOMAIN written :
         /\ written[k].file \in DOMAIN fs
         /\ fs[written[k].file] = LastWritten(written, written[k].file)
    /\ \A n \in (DOMAIN fs \cup DOMAIN prev.fs) \ Range(FilesOf(written)) :
         n \in DOMAIN fs /\ n \in DOMAIN prev.fs /\ fs[n] = prev.fs[n]

C5_Witness ==
  /\ err = "WriteFailure" /\ pc = "failed"
  /\ Len(written) = 2
  /\ Len(grouped) = 2
  /\ Str_index_js \in DOMAIN fs /\ fs[Str_index_js] = Stale

\* C6: a second complete run on the same document leaves every file with the
\* content the first complete run left.
C6_Idempotent ==
  (run >= 2 /\ prev.ok /\ pc = "done") => fs = prev.fs

C6_Witness ==
  /\ run = 2 /\ prev.ok /\ pc = "done"
  /\ Len(grouped) = 2
  /\ fs[Str_base_js] = genBaseJs
  /\ \E n \in DOMAIN fs : fs[n] = Stale

\* C7: when index.js is written, base.js and the module of every tag group
\* have been written by the run, index.js has one re-export line per tag
\* group, and every file it names has been written.
C7_BarrelLast ==
  \A k \in DOMAIN written :
    written[k].file = Str_index_js =>
      LET lines == written[k].content
          earlier == {written[j].file : j \in 1..(k - 1)}
      IN /\ Str_base_js \in earlier
         /\ \A g \in DOMAIN grouped : ModuleFile(grouped[g].tag) \in earlier
         /\ Len(lines) = Len(grouped) + 1
         /\ \A g \in DOMAIN grouped :
              /\ lines[g].k = "export"
              /\ lines[g].className = ClassName(grouped[g].tag)
              /\ lines[g].file = ModuleFile(grouped[g].tag)
         /\ \A l \in DOMAIN lines : lines[l].file \in earlier

C7_Witness ==
  /\ pc = "done"
  /\ Len(grouped) = 2
  /\ written[Len(written)].file = Str_index_js
  /\ Len(written) = 4

\* the subsequence of [pathParams, query, headers, body] selected by the flags
ArgsWhen(path, query, headers, body) ==
  (IF path THEN <<"pathParams">> ELSE <<>>) \o (IF query THEN <<"query">> ELSE <<>>)
    \o (IF headers THEN <<"headers">> ELSE <<>>) \o (IF body THEN <<"body">> ELSE <<>>)

Declares(op, where) ==
  \E i \in DOMAIN ParametersOf(op) : ParametersOf(op)[i].in = where

DeclaresNamed(op, where) ==
  \E i \in DOMAIN ParametersOf(op) :
    ParametersOf(op)[i].in = where /\ ParametersOf(op)[i].name # <<>>

\* the method emitted for the i-th operation of a genApiModule call
EmittedMethod(i) == call.ret[6 + i]

\* C8 as stated: the argument list has pathParams, query, headers iff the
\* operation has at least one parameter of that scope, and body iff a
\* request body is declared.
C8_ArgsByDeclaredParameters ==
  (call.f = "genApiModule" /\ call.done) =>
    \A i \in DOMAIN call.operations :
      EmittedMethod(i).args =
        ArgsWhen(Declares(call.operations[i], "path"), Declares(call.operations[i], "query"),
                 Declares(call.operations[i], "header"), call.operations[i].hasRequestBody)

\* C8 amended: the argument list has pathParams, query, headers iff the
\* operation has at least one parameter of that scope with a non-empty name,
\* and body iff a request body is declared.
C8_ArgsByNamedParameters ==
  (call.f = "genApiModule" /\ call.done) =>
    \A i \in DOMAIN call.operations :
      /\ EmittedMethod(i).k = "method"
      /\ EmittedMethod(i).fn = call.operations[i].fnName
      /\ EmittedMethod(i).args =
           ArgsWhen(DeclaresNamed(call.operations[i], "path"),
                    DeclaresNamed(call.operations[i], "query"),
                    DeclaresNamed(call.operations[i], "header"),
                    call.operations[i].hasRequestBody)

C8_Witness ==
  /\ call.f = "genApiModule" /\ call.done
  /\ Len(call.operations) = 2
  /\ EmittedMethod(1).args = <<>>
  /\ EmittedMethod(2).args = <<"query">>
  /\ Len(call.operations[2].parameters) = 2
  /\ call.operations[2].parameters[1] = [name |-> <<>>, in |-> "header"]

\* the template interpolates a field of pathParams
UsesPathParams(tmpl) ==
  LET ref == <<"$", "{">> \o Str_pathParams \o <<".">>
  IN \E j \in DOMAIN tmpl : j + Len(ref) - 1 <= Len(tmpl)
                            /\ SubSeq(tmpl, j, j + Len(ref) - 1) = ref

\* C9: a method whose path template interpolates pathParams has pathParams
\* in its argument list.
C9_MethodClosed ==
  (call.f = "genApiModule" /\ call.done) =>
    \A i \in DOMAIN call.operations :
      UsesPathParams(EmittedMethod(i).path) => "pathParams" \in Range(EmittedMethod(i).args)

\* C10: in one tag's bucket, the records of different operations have
\* different function names.
C10_MethodNamesDistinct ==
  (call.f = "groupOperationsByTag" /\ call.done) =>
    \A g \in DOMAIN call.ret :
      \A i, j \in DOMAIN call.ret[g].ops :
        LET a == call.ret[g].ops[i]
            b == call.ret[g].ops[j]
        IN (a.pathKey # b.pathKey \/ a.method # b.method) => a.fnName # b.fnName

====
